---- MODULE Spec2Model ----
(***************************************************************************)
(* A model of the smart-wsn-parking-lot firmware: the SensorNode class     *)
(* (sensornode.cpp), the Message class (message.cpp) and the BaseStation   *)
(* class (basestation.hpp).                                                *)
(*                                                                         *)
(* A 32-bit radio address is held as its memory image, the tuple of its    *)
(* RF24_ADDRESS_WIDTH bytes, lowest address first (the AVR is little       *)
(* endian), so that no value leaves TLC's integer range.                   *)
(***************************************************************************)
EXTENDS Integers, Sequences, FiniteSets, TLC

\* ------------------------------------------------------------- constants

BASE_STATION_ID == 0

\* 0xBAD1DEA5 as its four bytes in memory, least significant first
BASE_STATION_ADDRESS == <<165, 222, 209, 186>>

RF24_CHANNEL_SPACING == 5

RF24_ADDRESS_WIDTH == 4

MAX_SEND_ATTEMPTS == 15

FAILED_SEND_DELAY == 15

CHANNEL_CHECKS_MAX == 10

CHANNEL_BUSY_DELAY_MIN_MS == 25

CHANNEL_BUSY_DELAY_MAX_MS == 100

SENSOR_NODE_NUM == 10

\* largest value of a uint8_t
UINT8_MAX == 255

\* range status codes of the ToF sensor driver compared against in
\* is_sensor_status_changed
VL6180X_ERROR_NONE == 0

VL6180X_ERROR_NOCONVERGE == 7

\* highest legal channel of the transceiver
RF24_CHANNEL_MAX == 125

\* ---------------------------------------------------------------- bounds

\* raw range status codes the sensor collaborator may report: 0..MaxRawStatus
MaxRawStatus == 8

\* the receivers a caller addresses a message to: 0..MaxRxId
MaxRxId == 2

\* the ids the registry is called with: 0..MaxIdInput and UINT8_MAX
MaxIdInput == 11

\* payloads the receive FIFO of a radio holds before it stops accepting
MaxFifo == 1

\* ------------------------------------------------------------ value sets

Uint8 == 0..UINT8_MAX

SensorNodeIds == 1..SENSOR_NODE_NUM

NodeIds == 0..SENSOR_NODE_NUM

RawStatuses == 0..MaxRawStatus

RxIds == 0..MaxRxId

IdInputs == (0..MaxIdInput) \cup {UINT8_MAX}

OccupancyStatus == {"UNKNOWN", "VACANT", "OCCUPIED"}

\* ------------------------------------------------------- pure functions

\* the value of an unsigned expression stored into a uint8_t
ToUint8(x) == x % (UINT8_MAX + 1)

calculate_radio_address_general(node_id) ==
    [k \in 1..RF24_ADDRESS_WIDTH |-> node_id]

calculate_radio_address(node_id) ==
    IF BASE_STATION_ID = node_id
    THEN BASE_STATION_ADDRESS
    ELSE [k \in 1..RF24_ADDRESS_WIDTH |-> node_id]

calculate_radio_channel_added(node_id) ==
    ToUint8(node_id + RF24_CHANNEL_SPACING)

calculate_radio_channel(node_id) ==
    ToUint8(node_id * RF24_CHANNEL_SPACING)

\* ---------------------------------------------------------- the messages

\* Message(rx_id, tx_id, msg_type): the header fields
Message(rx_id, tx_id, msg_type) ==
    [rx_id |-> rx_id, tx_id |-> tx_id, msg_type |-> msg_type]

get_rx_id(msg) == msg.rx_id

get_tx_id(msg) == msg.tx_id

\* UpdateMessage(rx_id, tx_id, node_id, is_vacant): a header of type
\* "UPDATE" and the payload
UpdateMessage(rx_id, tx_id, node_id, is_vacant) ==
    [rx_id |-> rx_id, tx_id |-> tx_id, msg_type |-> "UPDATE",
     node_id |-> node_id, is_vacant |-> is_vacant]

NoMessage == UpdateMessage(0, 0, 0, FALSE)

\* -------------------------------------------------- the radio collaborator

\* random(min, max) of the Arduino core: a value from min to max - 1
random(min, max) == min..(max - 1)

\* the transceiver before begin(): nothing configured. The one reading pipe
\* the firmware uses, RF24_READING_PIPE, is the pipe of the record.
RadioOff ==
    [channel |-> -1, pipe_open |-> FALSE, pipe_address |-> <<>>,
     listening |-> FALSE, tx_address |-> <<>>, auto_ack |-> FALSE,
     retries |-> <<0, 0>>]

setChannel(radio, channel) == [radio EXCEPT !.channel = channel]

openReadingPipe(radio, address) ==
    [radio EXCEPT !.pipe_open = TRUE, !.pipe_address = address]

closeReadingPipe(radio) == [radio EXCEPT !.pipe_open = FALSE]

openWritingPipe(radio, address) == [radio EXCEPT !.tx_address = address]

startListening(radio) == [radio EXCEPT !.listening = TRUE]

stopListening(radio) == [radio EXCEPT !.listening = FALSE]

\* ------------------------------------------------------------- the state

VARIABLES
    sn,          \* the SensorNode objects, by node id
    node_status, \* BaseStation::node_status, the C array indexed from 0
    bs,          \* the rest of the base station: receive FIFO, last call
    fn           \* the arguments and results of the pure functions

vars == <<sn, node_status, bs, fn>>

\* the status a node holds before its first poll
InitialStatus == "UNKNOWN"

\* SensorNode::SensorNode(node_id): the object after construction
SensorNode(node_id) ==
    [node_id |-> node_id,
     radio_address |-> calculate_radio_address(node_id),
     radio_channel |-> calculate_radio_channel(node_id),
     sensor_status |-> InitialStatus,
     radio |-> RadioOff,
     fifo |-> 0,
     began |-> FALSE,
     \* the call in progress or, at rest, the last call and what it returned
     pc |-> "idle",
     op |-> "none",
     ret |-> FALSE,
     \* locals of transmit_update
     msg |-> NoMessage,
     rx_id |-> 0,
     rx_address |-> <<>>,
     rx_channel |-> 0,
     i |-> 0,
     is_channel_open |-> FALSE,
     channel_delay |-> 0,
     is_sent |-> FALSE,
     \* local of is_sensor_status_changed, and the status the last such call
     \* found stored
     status |-> 0,
     prev_status |-> "UNKNOWN",
     \* the last range status read that was NONE or NOCONVERGE, -1 before one
     last_status |-> -1,
     \* the radio primitives called since the current call began
     calls |-> <<>>,
     \* the other nodes that were sending on the channel at the last probe
     heard |-> {}]

\* the object as a call finds it: the locals of the previous call are gone
Enter(s, op) ==
    [s EXCEPT !.op = op, !.ret = FALSE, !.msg = NoMessage, !.rx_id = 0,
              !.rx_address = <<>>, !.rx_channel = 0, !.i = 0,
              !.is_channel_open = FALSE, !.channel_delay = 0,
              !.is_sent = FALSE, !.status = 0, !.calls = <<>>,
              !.heard = {}]

\* ------------------------------------------------------ SensorNode::init

\* the configuration of the radio, once sensor and radio have begun
init_radio(s) ==
    startListening(
        openReadingPipe(
            setChannel([s.radio EXCEPT !.auto_ack = TRUE,
                                       !.retries = <<FAILED_SEND_DELAY, MAX_SEND_ATTEMPTS>>],
                       s.radio_channel),
            s.radio_address))

init(n) ==
    /\ sn[n].pc = "idle"
    /\ ~sn[n].began
    /\ \E sensor_begin, radio_begin \in BOOLEAN :
         LET s == Enter(sn[n], "init") IN
         sn' = [sn EXCEPT ![n] =
                  IF ~sensor_begin THEN s
                  ELSE IF ~radio_begin THEN s
                  ELSE [s EXCEPT !.radio = init_radio(s),
                                 !.calls = <<"setChannel", "openReadingPipe",
                                             "startListening">>,
                                 !.began = TRUE,
                                 !.ret = TRUE]]
    /\ UNCHANGED <<node_status, bs, fn>>

\* ------------------------------------- SensorNode::is_sensor_status_changed

\* the object after the call, s.status being the range status that was read
sensor_status_changed_always(s) ==
    IF VL6180X_ERROR_NONE = s.status
    THEN [s EXCEPT !.sensor_status = "OCCUPIED", !.ret = TRUE]
    ELSE IF VL6180X_ERROR_NOCONVERGE = s.status
    THEN [s EXCEPT !.sensor_status = "VACANT", !.ret = TRUE]
    ELSE [s EXCEPT !.ret = FALSE]

sensor_status_changed(s) ==
    IF VL6180X_ERROR_NONE = s.status
    THEN IF "OCCUPIED" = s.sensor_status
         THEN [s EXCEPT !.ret = FALSE]
         ELSE [s EXCEPT !.sensor_status = "OCCUPIED", !.ret = TRUE]
    ELSE IF VL6180X_ERROR_NOCONVERGE = s.status
    THEN IF "VACANT" = s.sensor_status
         THEN [s EXCEPT !.ret = FALSE]
         ELSE [s EXCEPT !.sensor_status = "VACANT", !.ret = TRUE]
    ELSE [s EXCEPT !.ret = FALSE]

\* the range statuses the function recognizes
Recognized == {VL6180X_ERROR_NONE, VL6180X_ERROR_NOCONVERGE}

\* the object a poll works on: the status read, and what was stored before
polled(s, status) ==
    [Enter(s, "is_sensor_status_changed")
        EXCEPT !.status = status,
               !.prev_status = s.sensor_status,
               !.last_status = IF status \in Recognized THEN status ELSE @]

\* lines 117-156 with the stored status set to UNKNOWN on a sensor error
is_sensor_status_changed_error_unknown(n) ==
    /\ sn[n].pc = "idle"
    /\ sn[n].began
    /\ \E status \in RawStatuses :
         sn' = [sn EXCEPT ![n] =
                  IF status \in Recognized
                  THEN sensor_status_changed(polled(sn[n], status))
                  ELSE [polled(sn[n], status)
                           EXCEPT !.sensor_status = "UNKNOWN"]]
    /\ UNCHANGED <<node_status, bs, fn>>

is_sensor_status_changed(n) ==
    /\ sn[n].pc = "idle"
    /\ sn[n].began
    /\ \E status \in RawStatuses :
         sn' = [sn EXCEPT ![n] = sensor_status_changed(polled(sn[n], status))]
    /\ UNCHANGED <<node_status, bs, fn>>

\* ------------------------------------------- SensorNode::transmit_update

\* lines 161-170 with the listening stopped before the carrier-sense loop
transmit_begin_stop_listening(s, msg) ==
    LET rx_id == get_rx_id(msg)
        rx_channel == calculate_radio_channel(rx_id)
    IN  [Enter(s, "transmit_update")
            EXCEPT !.msg = msg,
                   !.rx_id = rx_id,
                   !.rx_address = calculate_radio_address(rx_id),
                   !.rx_channel = rx_channel,
                   !.radio = stopListening(setChannel(s.radio, rx_channel)),
                   !.calls = <<"setChannel">>,
                   !.is_channel_open = FALSE,
                   !.i = 0,
                   !.pc = "probe"]

\* lines 161-170: the receiver's radio configuration, the retune to its
\* channel and the start of the carrier-sense loop
transmit_begin(s, msg) ==
    LET rx_id == get_rx_id(msg)
        rx_channel == calculate_radio_channel(rx_id)
    IN  [Enter(s, "transmit_update")
            EXCEPT !.msg = msg,
                   !.rx_id = rx_id,
                   !.rx_address = calculate_radio_address(rx_id),
                   !.rx_channel = rx_channel,
                   !.radio = setChannel(s.radio, rx_channel),
                   !.calls = <<"setChannel">>,
                   !.is_channel_open = FALSE,
                   !.i = 0,
                   !.pc = "probe"]

\* transmit_update(UpdateMessage* msg) called with a message of the caller
transmit_update_msg(n) ==
    /\ sn[n].pc = "idle"
    /\ sn[n].began
    /\ \E rx_id \in RxIds, is_vacant \in BOOLEAN :
         sn' = [sn EXCEPT ![n] =
                  transmit_begin(sn[n], UpdateMessage(rx_id, n, n, is_vacant))]
    /\ UNCHANGED <<node_status, bs, fn>>

\* the message transmit_update(uint8_t rx_node_id) builds
update_message_negated(s, rx_node_id) ==
    UpdateMessage(rx_node_id, s.node_id, s.node_id, s.sensor_status # "VACANT")

update_message(s, rx_node_id) ==
    UpdateMessage(rx_node_id, s.node_id, s.node_id, s.sensor_status = "VACANT")

\* transmit_update(uint8_t rx_node_id)
transmit_update_id(n) ==
    /\ sn[n].pc = "idle"
    /\ sn[n].began
    /\ \E rx_node_id \in RxIds :
         sn' = [sn EXCEPT ![n] =
                  transmit_begin(sn[n], update_message(sn[n], rx_node_id))]
    /\ UNCHANGED <<node_status, bs, fn>>

\* lines 171-182: one probe of the carrier; a busy one draws the delay
probe(n) ==
    /\ sn[n].pc = "probe"
    /\ \E carrier \in BOOLEAN :
         LET s == [sn[n] EXCEPT !.is_channel_open = (FALSE = carrier),
                                !.calls = Append(@, "testCarrier")]
         IN  IF s.is_channel_open
             THEN sn' = [sn EXCEPT ![n] = [s EXCEPT !.pc = "check"]]
             ELSE \E channel_delay \in random(CHANNEL_BUSY_DELAY_MIN_MS,
                                              CHANNEL_BUSY_DELAY_MAX_MS) :
                    sn' = [sn EXCEPT ![n] =
                             [s EXCEPT !.channel_delay = channel_delay,
                                       !.pc = "delay"]]
    /\ UNCHANGED <<node_status, bs, fn>>

\* lines 184-185 and 171: the delay, then the loop's increment and test
delay_no_increment(n) ==
    /\ sn[n].pc = "delay"
    /\ sn' = [sn EXCEPT ![n] =
                [@ EXCEPT !.calls = Append(@, "delay"),
                          !.channel_delay = 0,
                          !.pc = IF sn[n].i < CHANNEL_CHECKS_MAX
                                 THEN "probe" ELSE "check"]]
    /\ UNCHANGED <<node_status, bs, fn>>

delay(n) ==
    /\ sn[n].pc = "delay"
    /\ sn' = [sn EXCEPT ![n] =
                [@ EXCEPT !.calls = Append(@, "delay"),
                          !.channel_delay = 0,
                          !.i = ToUint8(@ + 1),
                          !.pc = IF ToUint8(sn[n].i + 1) < CHANNEL_CHECKS_MAX
                                 THEN "probe" ELSE "check"]]
    /\ UNCHANGED <<node_status, bs, fn>>

\* lines 190-194: the channel had too much traffic
abort_restore_no_retune(s) ==
    [s EXCEPT !.radio = openReadingPipe(s.radio, s.radio_address),
              !.calls = @ \o <<"setChannel", "openReadingPipe">>,
              !.ret = FALSE,
              !.pc = "idle"]

abort_restore(s) ==
    [s EXCEPT !.radio = openReadingPipe(setChannel(s.radio, s.radio_channel),
                                        s.radio_address),
              !.calls = @ \o <<"setChannel", "openReadingPipe">>,
              !.ret = FALSE,
              !.pc = "idle"]

abort(n) ==
    /\ sn[n].pc = "check"
    /\ FALSE = sn[n].is_channel_open
    /\ sn' = [sn EXCEPT ![n] = abort_restore(sn[n])]
    /\ UNCHANGED <<node_status, bs, fn>>

\* lines 197-206: stop listening, close the own pipe, open the pipe to the
\* receiver; the copy of the message is the message
prepare_write_keep_listening(s) ==
    [s EXCEPT !.radio = openWritingPipe(closeReadingPipe(s.radio),
                                        s.rx_address),
              !.calls = @ \o <<"closeReadingPipe", "openWritingPipe">>,
              !.pc = "write"]

prepare_write(s) ==
    [s EXCEPT !.radio = openWritingPipe(closeReadingPipe(stopListening(s.radio)),
                                        s.rx_address),
              !.calls = @ \o <<"stopListening", "closeReadingPipe",
                               "openWritingPipe">>,
              !.pc = "write"]

prepare_unchecked(n) ==
    /\ sn[n].pc = "check"
    /\ sn' = [sn EXCEPT ![n] = prepare_write(sn[n])]
    /\ UNCHANGED <<node_status, bs, fn>>

prepare(n) ==
    /\ sn[n].pc = "check"
    /\ TRUE = sn[n].is_channel_open
    /\ sn' = [sn EXCEPT ![n] = prepare_write(sn[n])]
    /\ UNCHANGED <<node_status, bs, fn>>

\* line 209 with the stored status forgotten when the send is not acknowledged
radio_write_forget_status(s, acked) ==
    [s EXCEPT !.is_sent = acked,
              !.sensor_status = IF acked THEN @ ELSE "UNKNOWN",
              !.calls = Append(@, "write"),
              !.pc = "restore"]

\* line 209: the blocking send; the radio reports whether it was acknowledged
radio_write(s, acked) ==
    [s EXCEPT !.is_sent = acked,
              !.calls = Append(@, "write"),
              !.pc = "restore"]

write(n) ==
    /\ sn[n].pc = "write"
    /\ \E acked \in BOOLEAN :
         sn' = [sn EXCEPT ![n] = radio_write(sn[n], acked)]
    /\ UNCHANGED <<node_status, bs, fn>>

\* lines 211-218 with a return of true in place of is_sent
restore_radio_sent(s) ==
    [s EXCEPT !.radio = startListening(
                            openReadingPipe(setChannel(s.radio, s.radio_channel),
                                            s.radio_address)),
              !.calls = @ \o <<"setChannel", "openReadingPipe",
                               "startListening">>,
              !.ret = TRUE,
              !.pc = "idle"]

\* lines 211-218: back to this node's radio configuration
restore_radio(s) ==
    [s EXCEPT !.radio = startListening(
                            openReadingPipe(setChannel(s.radio, s.radio_channel),
                                            s.radio_address)),
              !.calls = @ \o <<"setChannel", "openReadingPipe",
                               "startListening">>,
              !.ret = s.is_sent,
              !.pc = "idle"]

restore(n) ==
    /\ sn[n].pc = "restore"
    /\ sn' = [sn EXCEPT ![n] = restore_radio(sn[n])]
    /\ UNCHANGED <<node_status, bs, fn>>

\* ------------------------------- SensorNode::is_message and read_message

\* a payload for this node arrives while its radio listens on its channel
arrive(n) ==
    /\ sn[n].radio.listening
    /\ sn[n].radio.pipe_open
    /\ sn[n].radio.pipe_address = sn[n].radio_address
    /\ sn[n].radio.channel = sn[n].radio_channel
    /\ sn[n].fifo < MaxFifo
    /\ sn' = [sn EXCEPT ![n].fifo = @ + 1]
    /\ UNCHANGED <<node_status, bs, fn>>

is_message(n) ==
    /\ sn[n].pc = "idle"
    /\ sn[n].began
    /\ sn' = [sn EXCEPT ![n] =
                [Enter(sn[n], "is_message") EXCEPT !.ret = (sn[n].fifo > 0)]]
    /\ UNCHANGED <<node_status, bs, fn>>

read_message(n) ==
    /\ sn[n].pc = "idle"
    /\ sn[n].began
    /\ sn' = [sn EXCEPT ![n] =
                IF sn[n].fifo = 0
                THEN [Enter(sn[n], "read_message") EXCEPT !.ret = FALSE]
                ELSE [Enter(sn[n], "read_message") EXCEPT !.fifo = @ - 1,
                                                          !.ret = TRUE]]
    /\ UNCHANGED <<node_status, bs, fn>>

\* ------------------------------------------------------ the base station

\* bool node_status[SENSOR_NODE_NUM] = {0}
NodeStatusInit == [k \in 0..(SENSOR_NODE_NUM - 1) |-> FALSE]

\* the base station after construction and init: its radio rests on its own
\* channel and address; no call made yet
BaseStation ==
    [node_id |-> BASE_STATION_ID,
     radio |-> startListening(
                   openReadingPipe(
                       setChannel(RadioOff, calculate_radio_channel(BASE_STATION_ID)),
                       calculate_radio_address(BASE_STATION_ID))),
     fifo |-> <<>>,
     op |-> "none",
     id |-> 0,
     is_vacant |-> FALSE,
     ret |-> FALSE,
     count |-> 0,
     \* the registry as the last call found it, and the slots the call touched
     prev |-> NodeStatusInit,
     slots |-> {}]

is_valid_sensor_node_from_zero(node_id) ==
    node_id >= 0 /\ node_id < SENSOR_NODE_NUM

is_valid_sensor_node(node_id) ==
    node_id >= 1 /\ node_id <= SENSOR_NODE_NUM

\* a store into the C array; a store outside it leaves the array alone here
\* and shows in the slots touched
store(array, index, value) ==
    IF index \in DOMAIN array THEN [array EXCEPT ![index] = value] ELSE array

\* a load from the C array; outside it any value may be read
load(array, index) ==
    IF index \in DOMAIN array THEN {array[index]} ELSE BOOLEAN

\* the call as it begins: the results of the previous call are gone
EnterBase(b, op, id, is_vacant) ==
    [b EXCEPT !.op = op, !.id = id, !.is_vacant = is_vacant, !.ret = FALSE,
              !.count = 0, !.prev = node_status, !.slots = {}]

\* the registry after update_node_status(node_id, is_vacant)
updated_status_every_entry(array, node_id, is_vacant) ==
    IF is_valid_sensor_node(node_id)
    THEN [k \in DOMAIN array |-> is_vacant]
    ELSE array

updated_status(array, node_id, is_vacant) ==
    IF is_valid_sensor_node(node_id)
    THEN store(array, node_id - 1, is_vacant)
    ELSE array

update_node_status_call(b, node_id, is_vacant) ==
    [EnterBase(b, "update_node_status", node_id, is_vacant)
        EXCEPT !.ret = is_valid_sensor_node(node_id),
               !.slots = IF is_valid_sensor_node(node_id)
                         THEN {node_id - 1} ELSE {}]

update_node_status(node_id, is_vacant) ==
    /\ node_status' = updated_status(node_status, node_id, is_vacant)
    /\ bs' = update_node_status_call(bs, node_id, is_vacant)

get_node_status(node_id) ==
    /\ \E value \in (IF is_valid_sensor_node(node_id)
                     THEN load(node_status, node_id - 1) ELSE {FALSE}) :
         bs' = [EnterBase(bs, "get_node_status", node_id, FALSE)
                   EXCEPT !.ret = value,
                          !.slots = IF is_valid_sensor_node(node_id)
                                    THEN {node_id - 1} ELSE {}]
    /\ UNCHANGED node_status

\* the count of vacant entries among the first k slots of the array
RECURSIVE count_vacant(_, _)
count_vacant(array, k) ==
    IF k = 0 THEN 0
    ELSE count_vacant(array, k - 1) + (IF array[k - 1] THEN 1 ELSE 0)

num_vacant_skip_last(array) == count_vacant(array, SENSOR_NODE_NUM - 1)

num_vacant_of(array) == count_vacant(array, SENSOR_NODE_NUM)

num_vacant ==
    /\ bs' = [EnterBase(bs, "num_vacant", 0, FALSE)
                 EXCEPT !.count = num_vacant_of(node_status),
                        !.slots = 0..(SENSOR_NODE_NUM - 1)]
    /\ UNCHANGED node_status

is_valid_sensor_node_called(node_id) ==
    /\ bs' = [EnterBase(bs, "is_valid_sensor_node", node_id, FALSE)
                 EXCEPT !.ret = is_valid_sensor_node(node_id)]
    /\ UNCHANGED node_status

\* ------------------------------------------------- the functions on ids

NoCall == [called |-> FALSE]

apply_functions ==
    /\ ~fn.called
    /\ fn' = [fn EXCEPT !.called = TRUE,
                        !.address_a = calculate_radio_address(fn.a),
                        !.address_b = calculate_radio_address(fn.b),
                        !.channel_a = calculate_radio_channel(fn.a),
                        !.channel_b = calculate_radio_channel(fn.b)]
    /\ UNCHANGED <<sn, node_status, bs>>

InitFn ==
    /\ \E a \in Uint8, b \in NodeIds :
         fn = [called |-> FALSE, a |-> a, b |-> b,
               address_a |-> <<>>, address_b |-> <<>>,
               channel_a |-> 0, channel_b |-> 0]
    /\ sn = <<>>
    /\ node_status = NodeStatusInit
    /\ bs = BaseStation

SpecFn == InitFn /\ [][apply_functions]_vars

\* --------------------------------------------- the base station's registry

InitBase ==
    /\ sn = <<>>
    /\ node_status = NodeStatusInit
    /\ bs = BaseStation
    /\ fn = NoCall

NextBase ==
    \/ \E node_id \in IdInputs, is_vacant \in BOOLEAN :
         update_node_status(node_id, is_vacant) /\ UNCHANGED <<sn, fn>>
    \/ \E node_id \in IdInputs :
         get_node_status(node_id) /\ UNCHANGED <<sn, fn>>
    \/ num_vacant /\ UNCHANGED <<sn, fn>>
    \/ \E node_id \in IdInputs :
         is_valid_sensor_node_called(node_id) /\ UNCHANGED <<sn, fn>>

SpecBase == InitBase /\ [][NextBase]_vars

\* ------------------------------------------- one sensor node on its own

\* the ids of the node that is deployed alone: the first and the last
LoneNodeIds == {1, SENSOR_NODE_NUM}

Deployed(ids) ==
    /\ \E node_id \in ids : sn = [n \in {node_id} |-> SensorNode(node_id)]
    /\ node_status = NodeStatusInit
    /\ bs = BaseStation
    /\ fn = NoCall

Init == Deployed(LoneNodeIds)

Next ==
    \/ \E n \in DOMAIN sn : init(n)
    \/ \E n \in DOMAIN sn : is_sensor_status_changed(n)
    \/ \E n \in DOMAIN sn : transmit_update_msg(n)
    \/ \E n \in DOMAIN sn : transmit_update_id(n)
    \/ \E n \in DOMAIN sn : probe(n)
    \/ \E n \in DOMAIN sn : delay(n)
    \/ \E n \in DOMAIN sn : abort(n)
    \/ \E n \in DOMAIN sn : prepare(n)
    \/ \E n \in DOMAIN sn : write(n)
    \/ \E n \in DOMAIN sn : restore(n)
    \/ \E n \in DOMAIN sn : arrive(n)
    \/ \E n \in DOMAIN sn : is_message(n)
    \/ \E n \in DOMAIN sn : read_message(n)

Spec == Init /\ [][Next]_vars

\* ------------------------------ a sensor node and the base station, linked

\* the control loop of a sensor node polls the sensor ...
loop_poll(n) ==
    /\ ~(sn[n].op = "is_sensor_status_changed" /\ sn[n].ret)
    /\ is_sensor_status_changed(n)

\* ... and on a change sends an update to the base station
loop_transmit(n) ==
    /\ sn[n].pc = "idle"
    /\ sn[n].op = "is_sensor_status_changed"
    /\ sn[n].ret
    /\ sn' = [sn EXCEPT ![n] =
                transmit_begin(sn[n], update_message(sn[n], BASE_STATION_ID))]
    /\ UNCHANGED <<node_status, bs, fn>>

\* whether a frame the radio sends now is one the base station's radio takes
reaches_base(radio) ==
    /\ bs.radio.listening
    /\ bs.radio.pipe_open
    /\ bs.radio.channel = radio.channel
    /\ bs.radio.pipe_address = radio.tx_address
    /\ Len(bs.fifo) < MaxFifo

\* line 209 with the base station in range: a frame that reaches it is queued
\* there, and only such a frame is acknowledged (the acknowledgment may be lost)
write_to_base(n) ==
    /\ sn[n].pc = "write"
    /\ \/ /\ reaches_base(sn[n].radio)
          /\ bs' = [bs EXCEPT !.fifo = Append(@, sn[n].msg)]
          /\ \E acked \in BOOLEAN :
               sn' = [sn EXCEPT ![n] = radio_write(sn[n], acked)]
       \/ /\ sn' = [sn EXCEPT ![n] = radio_write(sn[n], FALSE)]
          /\ UNCHANGED bs
    /\ UNCHANGED <<node_status, fn>>

\* the receive-driven update loop of the base station: read a message, and
\* for a status update record the sender's vacancy
receive ==
    /\ bs.fifo # <<>>
    /\ LET msg == Head(bs.fifo)
           b == [bs EXCEPT !.fifo = Tail(@)]
       IN  IF msg.msg_type = "UPDATE"
           THEN /\ node_status' = updated_status(node_status, get_tx_id(msg),
                                                 msg.is_vacant)
                /\ bs' = update_node_status_call(b, get_tx_id(msg), msg.is_vacant)
           ELSE /\ bs' = b
                /\ UNCHANGED node_status
    /\ UNCHANGED <<sn, fn>>

InitSys == Deployed(SensorNodeIds)

NextSys ==
    \/ \E n \in DOMAIN sn : init(n)
    \/ \E n \in DOMAIN sn : loop_poll(n)
    \/ \E n \in DOMAIN sn : loop_transmit(n)
    \/ \E n \in DOMAIN sn : probe(n)
    \/ \E n \in DOMAIN sn : delay(n)
    \/ \E n \in DOMAIN sn : abort(n)
    \/ \E n \in DOMAIN sn : prepare(n)
    \/ \E n \in DOMAIN sn : write_to_base(n)
    \/ \E n \in DOMAIN sn : restore(n)
    \/ receive

SpecSys == InitSys /\ [][NextSys]_vars

\* ------------------------------------ sensor nodes sharing the channels

\* the nodes deployed together: 1..MaxAirNodes
MaxAirNodes == 2

\* transmit_update(BASE_STATION_ID), as the control loop calls it
transmit_update_base(n) ==
    /\ sn[n].pc = "idle"
    /\ sn[n].began
    /\ sn' = [sn EXCEPT ![n] =
                transmit_begin(sn[n], update_message(sn[n], BASE_STATION_ID))]
    /\ UNCHANGED <<node_status, bs, fn>>

\* the other nodes whose radio is sending on the channel node n is tuned to
OnAir(n) ==
    {m \in DOMAIN sn \ {n} :
        sn[m].pc = "sending" /\ sn[m].radio.channel = sn[n].radio.channel}

\* lines 171-179 with other nodes in range: testCarrier reports a carrier
\* whenever another node is sending on the channel, and may report one
\* otherwise
probed_inverted(s, carrier, heard) ==
    [s EXCEPT !.is_channel_open = carrier,
              !.calls = Append(@, "testCarrier"),
              !.heard = heard,
              !.pc = IF carrier THEN "check" ELSE "delay"]

probed(s, carrier, heard) ==
    [s EXCEPT !.is_channel_open = (FALSE = carrier),
              !.calls = Append(@, "testCarrier"),
              !.heard = heard,
              !.pc = IF FALSE = carrier THEN "check" ELSE "delay"]

probe_air(n) ==
    /\ sn[n].pc = "probe"
    /\ \E carrier \in (IF OnAir(n) # {} THEN {TRUE} ELSE BOOLEAN) :
         sn' = [sn EXCEPT ![n] = probed(sn[n], carrier, OnAir(n))]
    /\ UNCHANGED <<node_status, bs, fn>>

\* lines 181-185 and 171: some delay is drawn and slept (its value is not
\* kept), then the loop's increment and test
delay_air(n) ==
    /\ sn[n].pc = "delay"
    /\ random(CHANNEL_BUSY_DELAY_MIN_MS, CHANNEL_BUSY_DELAY_MAX_MS) # {}
    /\ sn' = [sn EXCEPT ![n] =
                [@ EXCEPT !.calls = Append(@, "delay"),
                          !.i = ToUint8(@ + 1),
                          !.pc = IF ToUint8(sn[n].i + 1) < CHANNEL_CHECKS_MAX
                                 THEN "probe" ELSE "check"]]
    /\ UNCHANGED <<node_status, bs, fn>>

\* line 209, seen from the other nodes: the radio begins to send ...
write_begin(n) ==
    /\ sn[n].pc = "write"
    /\ sn' = [sn EXCEPT ![n].pc = "sending"]
    /\ UNCHANGED <<node_status, bs, fn>>

\* ... and write returns
write_end(n) ==
    /\ sn[n].pc = "sending"
    /\ \E acked \in BOOLEAN :
         sn' = [sn EXCEPT ![n] = radio_write(sn[n], acked)]
    /\ UNCHANGED <<node_status, bs, fn>>

InitAir ==
    /\ sn = [n \in 1..MaxAirNodes |-> SensorNode(n)]
    /\ node_status = NodeStatusInit
    /\ bs = BaseStation
    /\ fn = NoCall

NextAir ==
    \/ \E n \in DOMAIN sn : init(n)
    \/ \E n \in DOMAIN sn : transmit_update_base(n)
    \/ \E n \in DOMAIN sn : probe_air(n)
    \/ \E n \in DOMAIN sn : delay_air(n)
    \/ \E n \in DOMAIN sn : abort(n)
    \/ \E n \in DOMAIN sn : prepare(n)
    \/ \E n \in DOMAIN sn : write_begin(n)
    \/ \E n \in DOMAIN sn : write_end(n)
    \/ \E n \in DOMAIN sn : restore(n)

SpecAir == InitAir /\ [][NextAir]_vars

\* ------------------------------------------------ the Message accessors

\* the frames of get_type the stack of the microcontroller holds
MaxStack == 3

\* the kinds of message of the firmware
MessageTypes == {"UPDATE"}

\* message.cpp lines 15-20: a Message is constructed. The build either turns
\* the call of line 37 into a jump (tail) or keeps it a call.
InitMsg ==
    /\ \E rx_id \in RxIds, tx_id \in NodeIds, msg_type \in MessageTypes,
          tail \in BOOLEAN :
         fn = [called |-> FALSE, op |-> "Message", pc |-> "idle",
               msg |-> Message(rx_id, tx_id, msg_type),
               ret_id |-> -1, ret_type |-> "none", depth |-> 0,
               tail |-> tail]
    /\ sn = <<>>
    /\ node_status = NodeStatusInit
    /\ bs = BaseStation

\* message.cpp lines 23-26
call_get_rx_id ==
    /\ fn.pc = "idle"
    /\ fn' = [fn EXCEPT !.called = TRUE, !.op = "get_rx_id",
                        !.ret_id = get_rx_id(fn.msg), !.ret_type = "none"]
    /\ UNCHANGED <<sn, node_status, bs>>

\* message.cpp lines 29-32
call_get_tx_id ==
    /\ fn.pc = "idle"
    /\ fn' = [fn EXCEPT !.called = TRUE, !.op = "get_tx_id",
                        !.ret_id = get_tx_id(fn.msg), !.ret_type = "none"]
    /\ UNCHANGED <<sn, node_status, bs>>

\* message.cpp line 35: get_type is called
call_get_type ==
    /\ fn.pc = "idle"
    /\ fn' = [fn EXCEPT !.called = TRUE, !.op = "get_type",
                        !.ret_id = -1, !.ret_type = "none",
                        !.depth = 1, !.pc = "get_type"]
    /\ UNCHANGED <<sn, node_status, bs>>

\* message.cpp lines 35-37: the body of get_type reaches its one statement
get_type_body ==
    /\ fn.pc = "get_type"
    /\ fn' = [fn EXCEPT !.pc = "call"]
    /\ UNCHANGED <<sn, node_status, bs>>

\* message.cpp line 37: return this->get_type(), the function calls itself;
\* as a jump the frame is reused, as a call a frame is pushed until the stack
\* is exhausted
get_type_recurse ==
    /\ fn.pc = "call"
    /\ fn' = IF fn.tail
             THEN [fn EXCEPT !.pc = "get_type"]
             ELSE IF fn.depth < MaxStack
                  THEN [fn EXCEPT !.depth = @ + 1, !.pc = "get_type"]
                  ELSE [fn EXCEPT !.pc = "overflow"]
    /\ UNCHANGED <<sn, node_status, bs>>

NextMsg ==
    \/ call_get_rx_id
    \/ call_get_tx_id
    \/ call_get_type
    \/ get_type_body
    \/ get_type_recurse

\* every call that can take a step takes it
SpecMsg == InitMsg /\ [][NextMsg]_vars /\ WF_vars(NextMsg)

\* ------------------------------------------------------------ properties

Count(seq, x) == Cardinality({k \in DOMAIN seq : seq[k] = x})

\* the radio rests on the node's own configuration
Resting(s) ==
    /\ s.radio.channel = s.radio_channel
    /\ s.radio.pipe_open
    /\ s.radio.pipe_address = s.radio_address
    /\ s.radio.listening

\* C1: once init() has succeeded, whenever no transmit is in progress (so after
\* every return of transmit_update, whatever its outcome, and whenever
\* is_message or read_message run) the radio is on the node's own derived
\* channel, its reading pipe is open on the node's own derived address, and it
\* is listening.
C1_RestingConfiguration ==
    \A n \in DOMAIN sn :
        (sn[n].began /\ sn[n].pc = "idle") =>
            /\ Resting(sn[n])
            /\ sn[n].radio_channel = calculate_radio_channel(n)
            /\ sn[n].radio_address = calculate_radio_address(n)

\* a transmit to another node's channel has returned after the carrier stayed busy
C1_Witness ==
    \E n \in DOMAIN sn :
        /\ sn[n].began
        /\ sn[n].pc = "idle"
        /\ sn[n].op = "transmit_update"
        /\ sn[n].rx_channel # sn[n].radio_channel
        /\ ~sn[n].ret
        /\ Count(sn[n].calls, "write") = 0

\* all CHANNEL_CHECKS_MAX probes of the invocation reported a busy carrier
AllProbesBusy(s) ==
    /\ s.op = "transmit_update"
    /\ ~s.is_channel_open
    /\ Count(s.calls, "testCarrier") = CHANNEL_CHECKS_MAX

\* C2: when the carrier is busy on all CHANNEL_CHECKS_MAX probes of an
\* invocation, write is never called in it, the reading pipe is never closed
\* and listening never stopped, and the invocation returns false with the
\* radio on the node's own channel and its own reading pipe open.
C2_CarrierBusyAborts ==
    \A n \in DOMAIN sn :
        AllProbesBusy(sn[n]) =>
            /\ Count(sn[n].calls, "write") = 0
            /\ Count(sn[n].calls, "closeReadingPipe") = 0
            /\ Count(sn[n].calls, "stopListening") = 0
            /\ sn[n].radio.pipe_open
            /\ sn[n].radio.listening
            /\ sn[n].pc \in {"delay", "check", "idle"}
            /\ sn[n].pc = "idle" =>
                 /\ sn[n].ret = FALSE
                 /\ sn[n].radio.channel = sn[n].radio_channel
                 /\ sn[n].radio.pipe_address = sn[n].radio_address

\* the invocation has returned after ten busy probes on another channel
C2_Witness ==
    \E n \in DOMAIN sn :
        /\ AllProbesBusy(sn[n])
        /\ sn[n].pc = "idle"
        /\ sn[n].rx_channel # sn[n].radio_channel

\* the status a raw range status maps to, or "NONE"
Mapped(status) ==
    IF status = VL6180X_ERROR_NONE THEN "OCCUPIED"
    ELSE IF status = VL6180X_ERROR_NOCONVERGE THEN "VACANT"
    ELSE "NONE"

\* C3: after is_sensor_status_changed read raw status r with status s stored:
\* r = NO_ERROR leaves OCCUPIED stored, r = NO_CONVERGENCE leaves VACANT
\* stored, any other r leaves s stored and returns false; the call returns
\* true exactly when the mapped status differs from s, and the stored status
\* differs from s only then.
C3_SensorStatusMapping ==
    \A n \in DOMAIN sn :
        (sn[n].pc = "idle" /\ sn[n].op = "is_sensor_status_changed") =>
            LET s == sn[n]
                mapped == Mapped(s.status)
            IN  /\ mapped = "NONE" =>
                     (s.sensor_status = s.prev_status /\ s.ret = FALSE)
                /\ mapped # "NONE" =>
                     (s.sensor_status = mapped /\ s.ret = (mapped # s.prev_status))
                /\ s.sensor_status # s.prev_status => s.ret = TRUE

\* a poll read NO_CONVERGENCE over a stored OCCUPIED
C3_Witness ==
    \E n \in DOMAIN sn :
        /\ sn[n].pc = "idle"
        /\ sn[n].op = "is_sensor_status_changed"
        /\ sn[n].status = VL6180X_ERROR_NOCONVERGE
        /\ sn[n].prev_status = "OCCUPIED"
        /\ sn[n].sensor_status = "VACANT"
        /\ sn[n].ret

\* the registry entry of a sensor node id
Entry(array, node_id) == array[node_id - 1]

\* C4: update_node_status(id, v) with id outside 1..SENSOR_NODE_NUM returns
\* false and leaves every registry entry as it was; with id inside it returns
\* true, sets the entry of id to v and leaves every other entry as it was.
C4_UpdateNodeStatus ==
    bs.op = "update_node_status" =>
        IF bs.id \in SensorNodeIds
        THEN /\ bs.ret = TRUE
             /\ Entry(node_status, bs.id) = bs.is_vacant
             /\ \A k \in SensorNodeIds \ {bs.id} :
                  Entry(node_status, k) = Entry(bs.prev, k)
        ELSE /\ bs.ret = FALSE
             /\ node_status = bs.prev

\* an update of the last id made it vacant while another entry was vacant
C4_Witness ==
    /\ bs.op = "update_node_status"
    /\ bs.id = SENSOR_NODE_NUM
    /\ bs.is_vacant
    /\ ~Entry(bs.prev, SENSOR_NODE_NUM)
    /\ Entry(node_status, 1)

\* C5: after any sequence of update_node_status calls, num_vacant() returns
\* the number of ids in 1..SENSOR_NODE_NUM whose registry entry is vacant.
C5_NumVacantCounts ==
    bs.op = "num_vacant" =>
        bs.count = Cardinality({k \in SensorNodeIds : Entry(node_status, k)})

\* ids 1, 3 and 5 are vacant, all others occupied, and num_vacant() gave 3
C5_Witness ==
    /\ bs.op = "num_vacant"
    /\ {k \in SensorNodeIds : Entry(node_status, k)} = {1, 3, 5}
    /\ bs.count = 3

\* C6: a sensor node k that sends an update after its stored status changed
\* (as from OCCUPIED to VACANT) sends UpdateMessage with receiver
\* BASE_STATION_ID, sender k and is_vacant = (stored status = VACANT); a send
\* that succeeded has delivered that message to the base station; and the
\* base station's update_node_status(k, v) for a delivered message succeeds,
\* leaves the entry of k equal to v and every other entry as it was, with
\* num_vacant() one higher than before when v is vacant and the entry of k was
\* occupied.
C6_EndToEnd ==
    /\ \A n \in DOMAIN sn :
         LET s == sn[n] IN
         s.op = "transmit_update" =>
             /\ s.msg.rx_id = BASE_STATION_ID
             /\ s.msg.tx_id = n
             /\ s.msg.msg_type = "UPDATE"
             /\ s.msg.is_vacant = (s.sensor_status = "VACANT")
             /\ (s.prev_status = "OCCUPIED" /\ s.sensor_status = "VACANT") =>
                  s.msg.is_vacant = TRUE
             /\ s.is_sent =>
                  \/ bs.fifo # <<>> /\ bs.fifo[Len(bs.fifo)] = s.msg
                  \/ /\ bs.op = "update_node_status"
                     /\ bs.id = n
                     /\ bs.is_vacant = s.msg.is_vacant
    /\ \A k \in DOMAIN bs.fifo :
         /\ bs.fifo[k].rx_id = BASE_STATION_ID
         /\ bs.fifo[k].tx_id \in DOMAIN sn
         /\ bs.fifo[k].msg_type = "UPDATE"
    /\ bs.op = "update_node_status" =>
         /\ bs.id \in DOMAIN sn
         /\ bs.ret = TRUE
         /\ Entry(node_status, bs.id) = bs.is_vacant
         /\ \A k \in SensorNodeIds \ {bs.id} :
              Entry(node_status, k) = Entry(bs.prev, k)
         /\ (bs.is_vacant /\ ~Entry(bs.prev, bs.id)) =>
              num_vacant_of(node_status) = num_vacant_of(bs.prev) + 1

\* node 2 went from OCCUPIED to VACANT, its send succeeded, and the base
\* station has recorded it: one vacant space where there was none
C6_Witness ==
    /\ 2 \in DOMAIN sn
    /\ sn[2].op = "transmit_update"
    /\ sn[2].pc = "idle"
    /\ sn[2].ret = TRUE
    /\ sn[2].prev_status = "OCCUPIED"
    /\ sn[2].sensor_status = "VACANT"
    /\ bs.op = "update_node_status"
    /\ bs.id = 2
    /\ bs.is_vacant
    /\ ~Entry(bs.prev, 2)
    /\ Entry(node_status, 2)
    /\ num_vacant_of(bs.prev) = 0
    /\ num_vacant_of(node_status) = 1

Abs(x) == IF x < 0 THEN -x ELSE x

\* C7: over the node ids 0..SENSOR_NODE_NUM distinct ids have distinct
\* addresses and distinct channels; the address of id 0 is the sentinel
\* 0xBAD1DEA5, and the address of every id in 1..255, four bytes equal to the
\* id, differs from the sentinel.
C7_InjectiveMappings ==
    fn.called =>
        /\ (fn.a \in NodeIds /\ fn.a # fn.b) =>
             /\ fn.address_a # fn.address_b
             /\ fn.channel_a # fn.channel_b
        /\ fn.a = BASE_STATION_ID => fn.address_a = BASE_STATION_ADDRESS
        /\ fn.a \in 1..UINT8_MAX =>
             /\ fn.address_a = <<fn.a, fn.a, fn.a, fn.a>>
             /\ fn.address_a # BASE_STATION_ADDRESS

\* the functions were applied to the base station's id and the last node's id
C7_Witness ==
    /\ fn.called
    /\ fn.a = BASE_STATION_ID
    /\ fn.b = SENSOR_NODE_NUM
    /\ fn.address_a = BASE_STATION_ADDRESS

\* C8: for every id in 0..SENSOR_NODE_NUM the channel is id *
\* RF24_CHANNEL_SPACING and lies in 0..125; the channels of distinct ids are
\* at least 2 apart and those of consecutive ids exactly the spacing apart.
C8_ChannelSpacing ==
    (fn.called /\ fn.a \in NodeIds) =>
        /\ fn.channel_a = fn.a * RF24_CHANNEL_SPACING
        /\ fn.channel_a \in 0..RF24_CHANNEL_MAX
        /\ fn.a # fn.b => Abs(fn.channel_a - fn.channel_b) >= 2
        /\ Abs(fn.a - fn.b) = 1 =>
             Abs(fn.channel_a - fn.channel_b) = RF24_CHANNEL_SPACING

\* the functions were applied to the two highest node ids
C8_Witness ==
    /\ fn.called
    /\ fn.a = SENSOR_NODE_NUM
    /\ fn.b = SENSOR_NODE_NUM - 1
    /\ fn.channel_a = SENSOR_NODE_NUM * RF24_CHANNEL_SPACING

\* C9: the registry always has SENSOR_NODE_NUM entries, all occupied before
\* the first call, so that num_vacant() is 0 then; is_valid_sensor_node(id) is
\* true exactly for 1 <= id <= SENSOR_NODE_NUM; update_node_status and
\* get_node_status touch no slot for an invalid id and only the slot of the id
\* among the SENSOR_NODE_NUM slots for a valid one.
C9_RegistryBounds ==
    /\ DOMAIN node_status = 0..(SENSOR_NODE_NUM - 1)
    /\ Cardinality(DOMAIN node_status) = SENSOR_NODE_NUM
    /\ bs.op = "none" =>
         /\ \A k \in SensorNodeIds : ~Entry(node_status, k)
         /\ num_vacant_of(node_status) = 0
    /\ bs.op = "is_valid_sensor_node" =>
         bs.ret = (1 <= bs.id /\ bs.id <= SENSOR_NODE_NUM)
    /\ bs.op \in {"update_node_status", "get_node_status"} =>
         /\ bs.slots \subseteq DOMAIN node_status
         /\ bs.slots = IF 1 <= bs.id /\ bs.id <= SENSOR_NODE_NUM
                       THEN {bs.id - 1} ELSE {}
         /\ bs.ret = TRUE => bs.id \in SensorNodeIds

\* get_node_status(0) was called while the entry of id 1 was vacant
C9_Witness ==
    /\ bs.op = "get_node_status"
    /\ bs.id = 0
    /\ bs.slots = {}
    /\ Entry(node_status, 1)

\* the position of the first "write" among the calls, 0 if there is none
WritePos(calls) ==
    IF Count(calls, "write") = 0 THEN 0
    ELSE CHOOSE k \in DOMAIN calls :
           calls[k] = "write" /\ \A j \in 1..(k - 1) : calls[j] # "write"

\* C10: write is invoked only after a probe that reported the carrier idle,
\* taken on the receiver's derived channel; when it is invoked the radio is on
\* the receiver's channel, not listening, its reading pipe closed and its
\* writing pipe open to the receiver's derived address, and the calls before
\* it end with testCarrier, stopListening, closeReadingPipe, openWritingPipe.
C10_WriteAfterIdleProbe ==
    \A n \in DOMAIN sn :
        LET s == sn[n]
            k == WritePos(s.calls)
        IN  /\ s.pc = "write" =>
                 /\ s.is_channel_open
                 /\ s.radio.channel = calculate_radio_channel(s.msg.rx_id)
                 /\ ~s.radio.listening
                 /\ ~s.radio.pipe_open
                 /\ s.radio.tx_address = calculate_radio_address(s.msg.rx_id)
                 /\ Len(s.calls) >= 5
                 /\ SubSeq(s.calls, Len(s.calls) - 3, Len(s.calls)) =
                      <<"testCarrier", "stopListening", "closeReadingPipe",
                        "openWritingPipe">>
                 /\ s.calls[1] = "setChannel"
                 /\ Count(s.calls, "setChannel") = 1
            /\ k > 0 =>
                 /\ s.is_channel_open
                 /\ k >= 6
                 /\ SubSeq(s.calls, k - 4, k - 1) =
                      <<"testCarrier", "stopListening", "closeReadingPipe",
                        "openWritingPipe">>
                 /\ Count(SubSeq(s.calls, 1, k), "setChannel") = 1

\* write is about to be invoked after busy probes and a final idle one
C10_Witness ==
    \E n \in DOMAIN sn :
        /\ sn[n].pc = "write"
        /\ sn[n].rx_id = BASE_STATION_ID
        /\ Count(sn[n].calls, "testCarrier") = CHANNEL_CHECKS_MAX

\* an upper bound on the steps transmit_update has left
StepsLeft(s) ==
    CASE s.pc = "idle" -> 0
      [] s.pc = "restore" -> 1
      [] s.pc = "write" -> 2
      [] s.pc = "check" -> 3
      [] s.pc = "delay" -> 2 + 2 * (CHANNEL_CHECKS_MAX - s.i)
      [] s.pc = "probe" -> 3 + 2 * (CHANNEL_CHECKS_MAX - s.i)

\* the busy probes among the probes of the invocation
BusyProbes(s) ==
    Count(s.calls, "testCarrier") - (IF s.is_channel_open THEN 1 ELSE 0)

\* C11: every transmit_update invocation ends, whatever the carrier reports,
\* in one of two outcomes: write invoked once and its result returned, or
\* false without a write. It probes at most CHANNEL_CHECKS_MAX times, probes
\* no more after an idle probe, sleeps at most once per busy probe, can always
\* take its next step, and each of its steps brings it closer to its return
\* (the only other change while it runs is a payload arriving in the FIFO).
C11_TransmitTerminates ==
    /\ [](\A n \in DOMAIN sn :
            LET s == sn[n] IN
            /\ s.pc # "idle" =>
                 /\ s.op = "transmit_update"
                 /\ ENABLED (probe(n) \/ delay(n) \/ abort(n) \/ prepare(n)
                             \/ write(n) \/ restore(n))
            /\ s.op = "transmit_update" =>
                 /\ s.i <= CHANNEL_CHECKS_MAX
                 /\ Count(s.calls, "testCarrier") <= CHANNEL_CHECKS_MAX
                 /\ Count(s.calls, "testCarrier") =
                      s.i + (IF s.pc = "probe" \/ s.i = CHANNEL_CHECKS_MAX
                             THEN 0 ELSE 1)
                 /\ s.is_channel_open => s.pc \notin {"probe", "delay"}
                 /\ Count(s.calls, "delay") <= BusyProbes(s)
                 /\ Count(s.calls, "delay") = s.i
                 /\ s.pc = "idle" =>
                      \/ Count(s.calls, "write") = 1 /\ s.ret = s.is_sent
                      \/ Count(s.calls, "write") = 0 /\ s.ret = FALSE)
    /\ [][\A n \in DOMAIN sn :
            sn[n].pc # "idle" =>
                \/ StepsLeft(sn'[n]) < StepsLeft(sn[n])
                \/ sn'[n] = [sn[n] EXCEPT !.fifo = sn'[n].fifo]]_sn

\* an invocation returned after nine busy probes, a tenth idle one and a write
C11_Witness ==
    \E n \in DOMAIN sn :
        /\ sn[n].op = "transmit_update"
        /\ sn[n].pc = "idle"
        /\ Count(sn[n].calls, "testCarrier") = CHANNEL_CHECKS_MAX
        /\ Count(sn[n].calls, "delay") = CHANNEL_CHECKS_MAX - 1
        /\ Count(sn[n].calls, "write") = 1

\* the node rests after a poll that saw its stored status again, and no
\* message is on its way: with the same reading, every further poll reports
\* no change and nothing is sent
Settled(n) ==
    /\ sn[n].pc = "idle"
    /\ sn[n].op = "is_sensor_status_changed"
    /\ sn[n].ret = FALSE
    /\ Mapped(sn[n].status) = sn[n].sensor_status
    /\ bs.fifo = <<>>

\* C12: a status change whose send failed is sent again on a later poll
\* without the reading changing, so that once the reading stays the same and
\* nothing is left to send or to receive, the base station's entry for the
\* node equals the node's vacancy (stored status = VACANT).
C12_FailedSendRetried ==
    \A n \in DOMAIN sn :
        Settled(n) => Entry(node_status, n) = (sn[n].sensor_status = "VACANT")

\* the node is between its idle verdict and the completion of its write
InSendingStep(n) ==
    /\ sn[n].op = "transmit_update"
    /\ sn[n].is_channel_open
    /\ sn[n].pc \in {"check", "write", "sending"}

\* C13 as stated: no two nodes are at once between their idle verdict and the
\* completion of their write on the same receiver's channel.
C13_NoTwoSenders ==
    \A n, m \in DOMAIN sn :
        (n # m /\ sn[n].rx_channel = sn[m].rx_channel) =>
            ~(InSendingStep(n) /\ InSendingStep(m))

\* C13 as amended: a node is between its idle verdict and the return of its
\* write only after a probe of its own during which no other node was sending
\* on the receiver's channel.
C13_SendsAfterQuietProbe ==
    \A n \in DOMAIN sn :
        /\ InSendingStep(n) => sn[n].heard = {}
        /\ sn[n].pc \in {"write", "sending", "restore"} =>
             (sn[n].is_channel_open /\ sn[n].heard = {})
        /\ (sn[n].pc = "delay" /\ sn[n].heard # {}) => ~sn[n].is_channel_open

\* two nodes send to the base station at once, each after a quiet probe
C13_Witness ==
    /\ sn[1].pc = "sending"
    /\ sn[2].pc = "sending"
    /\ sn[1].radio.channel = sn[2].radio.channel
    /\ sn[1].heard = {}
    /\ sn[2].heard = {}

\* the durations the busy branch of a probe of node n can draw
Durations(n) ==
    {d \in Uint8 : ENABLED (probe(n) /\ sn'[n].pc = "delay"
                                     /\ sn'[n].channel_delay = d)}

\* C14: every sleep of the carrier-sense loop follows a busy probe and lasts
\* CHANNEL_BUSY_DELAY_MIN_MS to CHANNEL_BUSY_DELAY_MAX_MS milliseconds, and
\* the durations that can occur are exactly the integers 25..100, both ends
\* included.
C14_DelayRange ==
    \A n \in DOMAIN sn :
        /\ sn[n].pc = "delay" =>
             /\ ~sn[n].is_channel_open
             /\ sn[n].calls[Len(sn[n].calls)] = "testCarrier"
             /\ sn[n].channel_delay \in
                  CHANNEL_BUSY_DELAY_MIN_MS..CHANNEL_BUSY_DELAY_MAX_MS
        /\ sn[n].pc = "probe" =>
             Durations(n) =
                 CHANNEL_BUSY_DELAY_MIN_MS..CHANNEL_BUSY_DELAY_MAX_MS

\* C15: an invocation of transmit_update calls radio.write at most once; when
\* write was called the invocation returns what write returned; it returns
\* true only if write was called and returned true.
C15_SingleWriteResult ==
    \A n \in DOMAIN sn :
        LET s == sn[n] IN
        s.op = "transmit_update" =>
            /\ Count(s.calls, "write") <= 1
            /\ s.pc \in {"probe", "delay", "check", "write"} =>
                 Count(s.calls, "write") = 0
            /\ s.pc = "restore" => Count(s.calls, "write") = 1
            /\ s.pc = "idle" =>
                 /\ Count(s.calls, "write") = 1 => s.ret = s.is_sent
                 /\ s.ret => (Count(s.calls, "write") = 1 /\ s.is_sent)

\* an invocation wrote once, the write failed, and it returned false without
\* a second write
C15_Witness ==
    \E n \in DOMAIN sn :
        /\ sn[n].op = "transmit_update"
        /\ sn[n].pc = "idle"
        /\ Count(sn[n].calls, "write") = 1
        /\ ~sn[n].is_sent
        /\ ~sn[n].ret

\* the carrier-sense phase: from the retune to the idle verdict or the last
\* probe, before the branch of line 188
CarrierSense(s) == s.pc \in {"probe", "delay", "check"}

\* C16: during the carrier-sense phase of transmit_update only the radio
\* channel is changed: the reading pipe stays open on the node's own address,
\* the radio keeps listening, and stopListening and closeReadingPipe are not
\* executed before an idle verdict.
C16_CarrierSenseFrame ==
    /\ [](\A n \in DOMAIN sn :
            LET s == sn[n] IN
            CarrierSense(s) =>
                /\ s.radio.channel = s.rx_channel
                /\ s.radio.pipe_open
                /\ s.radio.pipe_address = s.radio_address
                /\ s.radio.listening
                /\ s.calls[1] = "setChannel"
                /\ \A k \in 2..Len(s.calls) :
                     s.calls[k] \in {"testCarrier", "delay"})
    /\ [][\A n \in DOMAIN sn :
            CarrierSense(sn'[n]) =>
                sn'[n].radio =
                    [sn[n].radio EXCEPT !.channel = sn'[n].rx_channel]]_sn

\* the node sleeps after several busy probes on a channel that is not its own
C16_Witness ==
    \E n \in DOMAIN sn :
        /\ sn[n].pc = "delay"
        /\ sn[n].i >= 2
        /\ sn[n].rx_channel # sn[n].radio_channel
        /\ sn[n].radio.channel = sn[n].rx_channel
        /\ sn[n].radio.listening

\* the step of node n from s to t is a call of is_sensor_status_changed
PollStep(s, t) ==
    /\ s.pc = "idle"
    /\ t.pc = "idle"
    /\ t.op = "is_sensor_status_changed"

\* the step of node n from s to t belongs to transmit_update: its entry, a step
\* of its body or its return
TransmitStep(s, t) ==
    \/ s.pc = "idle" /\ t.pc = "probe" /\ t.op = "transmit_update"
    \/ s.pc # "idle" /\ s.op = "transmit_update"

\* C17: no step of the transmit path changes the stored OccupancyStatus, the
\* node id or the node's own derived address and channel, whatever the outcome
\* (sent, send failed, aborted); the stored status is written only by
\* is_sensor_status_changed.
C17_TransmitKeepsRoleState ==
    [][\A n \in DOMAIN sn :
         /\ sn'[n].node_id = sn[n].node_id
         /\ sn'[n].radio_address = sn[n].radio_address
         /\ sn'[n].radio_channel = sn[n].radio_channel
         /\ TransmitStep(sn[n], sn'[n]) =>
              sn'[n].sensor_status = sn[n].sensor_status
         /\ sn'[n].sensor_status # sn[n].sensor_status =>
              PollStep(sn[n], sn'[n])]_sn

\* a VACANT node has returned from a send that failed, its status as before
C17_Witness ==
    \E n \in DOMAIN sn :
        /\ sn[n].op = "transmit_update"
        /\ sn[n].pc = "idle"
        /\ Count(sn[n].calls, "write") = 1
        /\ sn[n].ret = FALSE
        /\ sn[n].sensor_status = "VACANT"
        /\ sn[n].radio_channel = calculate_radio_channel(sn[n].node_id)
        /\ sn[n].radio_address = calculate_radio_address(sn[n].node_id)

\* C18: for every Message constructed with (rx_id, tx_id, msg_type),
\* get_rx_id() returns rx_id, get_tx_id() returns tx_id, and get_type()
\* terminates and returns the stored msg_type.
C18_GettersReturn ==
    /\ [](fn.op = "get_rx_id" => fn.ret_id = fn.msg.rx_id)
    /\ [](fn.op = "get_tx_id" => fn.ret_id = fn.msg.tx_id)
    /\ [](fn.op = "get_type" => fn.pc # "overflow")
    /\ (fn.op = "get_type" /\ fn.pc = "get_type")
          ~> (fn.pc = "idle" /\ fn.ret_type = fn.msg.msg_type)

\* C19: for every 8-bit node_id, the value calculate_radio_channel returns is
\* a legal radio channel, in the range 0..RF24_CHANNEL_MAX.
C19_ChannelLegal ==
    fn.called =>
        /\ fn.channel_a \in 0..RF24_CHANNEL_MAX
        /\ fn.channel_b \in 0..RF24_CHANNEL_MAX

\* C20: after any sequence of polls and transmit attempts the stored status
\* is the mapping (NONE -> OCCUPIED, NOCONVERGE -> VACANT) of the most recent
\* recognized raw reading, or UNKNOWN if there has been none; once the stored
\* status has left UNKNOWN it never returns to it; and a poll (a step at rest
\* that is not the arrival of a payload) that sees the recognized reading
\* that the poll before it saw reports no change.
C20_StatusFollowsReading ==
    /\ [](\A n \in DOMAIN sn :
            sn[n].sensor_status =
                IF sn[n].last_status = -1 THEN "UNKNOWN"
                ELSE Mapped(sn[n].last_status))
    /\ [][\A n \in DOMAIN sn :
            /\ sn[n].sensor_status # "UNKNOWN" =>
                 sn'[n].sensor_status # "UNKNOWN"
            /\ (PollStep(sn[n], sn'[n]) /\ sn'[n].fifo = sn[n].fifo
                  /\ sn'[n].status \in Recognized
                  /\ sn'[n].status = sn[n].last_status) =>
                 sn'[n].ret = FALSE]_sn

\* a poll read NO_CONVERGENCE with VACANT stored by an earlier poll and
\* reported no change
C20_Witness ==
    \E n \in DOMAIN sn :
        /\ sn[n].pc = "idle"
        /\ sn[n].op = "is_sensor_status_changed"
        /\ sn[n].status = VL6180X_ERROR_NOCONVERGE
        /\ sn[n].prev_status = "VACANT"
        /\ sn[n].last_status = VL6180X_ERROR_NOCONVERGE
        /\ sn[n].sensor_status = "VACANT"
        /\ ~sn[n].ret

====
